---- MODULE Spec2Model ----
(***************************************************************************)
(* Model of the truvalue "Real Terms" dashboard:                           *)
(*   - the /api/data route handler, in its two variants                    *)
(*       "route"   = src/app/api/data/route.js                             *)
(*       "part002" = src/unnamed/part_002                                  *)
(*     (fetch fan-out, calculateMag7, mergeData, fallback, response);      *)
(*   - the chart transformer of src/real-terms-app/app/page.js             *)
(*     (filteredData, chartData).                                          *)
(* JavaScript numbers are modelled as exact non-negative rationals plus    *)
(* the special values NaN, Infinity, null and undefined.                   *)
(***************************************************************************)
EXTENDS Integers, Sequences, FiniteSets, TLC

VARIABLES
    variant,      \* which route-handler file serves the request
    fredKey,      \* process.env.FRED_API_KEY is set
    env,          \* what each provider call does, per fetch key
    pc,           \* position of the GET handler / of the dashboard
    rawData,      \* GET: per-key working data after the join
    allDates,     \* GET: the canonical date list
    mag7Data,     \* GET: the composite series, or null
    response,     \* GET: the JSON body handed to Response.json
    inFlight,     \* GET: the fetches issued and not yet settled
    slots,        \* GET: the array the join fills, one slot per fetch
    pageRaw,      \* page.js: rawData state (rows of the API response)
    denominator,  \* page.js: denominator state
    timeRange,    \* page.js: timeRange state
    indexed,      \* page.js: indexed state
    chart,        \* page.js: the rows the latest chartData invocation returned
    leftBase      \* page.js: the baseValues object as that invocation left it

vars == <<variant, fredKey, env, pc, rawData, allDates, mag7Data, response,
          inFlight, slots, pageRaw, denominator, timeRange, indexed, chart, leftBase>>

(***************************************************************************)
(* Bounds of the model.                                                    *)
(***************************************************************************)
\* number of canonical months a provider reports
MaxDates == 2
\* provider prices range over 0..MaxVal
MaxVal == 2
\* number of freely chosen rows handed to the dashboard
MaxRows == 2

(***************************************************************************)
(* JavaScript numbers.  A finite number is <<n, d>> with d >= 1 in lowest  *)
(* terms; the other values keep d = 0 so that all values are comparable.   *)
(***************************************************************************)
NaN == <<0, 0>>
Infinity == <<1, 0>>
NULL == <<-1, 0>>
UNDEFINED == <<-2, 0>>

RECURSIVE Gcd(_, _)
Gcd(a, b) == IF b = 0 THEN a ELSE Gcd(b, a % b)

Rat(n, d) == LET g == Gcd(n, d) IN IF g = 0 THEN <<0, 1>> ELSE <<n \div g, d \div g>>

Num(n) == <<n, 1>>

IsFinite(x) == x[2] >= 1

IsNullish(x) == x = NULL \/ x = UNDEFINED

\* ToBoolean on a number-or-nullish value: 0, NaN, null, undefined are falsy
Truthy(x) == ~(IsNullish(x) \/ x = NaN \/ (IsFinite(x) /\ x[1] = 0))

\* a || b
JsOr(a, b) == IF Truthy(a) THEN a ELSE b

\* a / b on non-negative numbers
JsDiv(a, b) ==
    IF a = NaN \/ b = NaN THEN NaN
    ELSE IF a = Infinity THEN (IF b = Infinity THEN NaN ELSE Infinity)
    ELSE IF b = Infinity THEN Num(0)
    ELSE IF b[1] = 0 THEN (IF a[1] = 0 THEN NaN ELSE Infinity)
    ELSE Rat(a[1] * b[2], a[2] * b[1])

\* a * b on non-negative numbers
JsMul(a, b) ==
    IF a = NaN \/ b = NaN THEN NaN
    ELSE IF a = Infinity THEN (IF IsFinite(b) /\ b[1] = 0 THEN NaN ELSE Infinity)
    ELSE IF b = Infinity THEN (IF a[1] = 0 THEN NaN ELSE Infinity)
    ELSE Rat(a[1] * b[1], a[2] * b[2])

\* a + b on non-negative numbers
JsAdd(a, b) ==
    IF a = NaN \/ b = NaN THEN NaN
    ELSE IF a = Infinity \/ b = Infinity THEN Infinity
    ELSE Rat(a[1] * b[2] + b[1] * a[2], a[2] * b[2])

\* Math.round(value * 10000) / 10000 : round half up to 4 decimals
Round4(x) ==
    IF ~IsFinite(x) THEN x
    ELSE Rat((2 * x[1] * 10000 + x[2]) \div (2 * x[2]), 10000)

(***************************************************************************)
(* Dates.  A calendar date 'YYYY-MM-DD' is <<month, day>>, month counting  *)
(* the months from the start date; date.substring(0, 7) is the month.      *)
(***************************************************************************)
YearMonth(date) == date[1]

\* a Date object of a quote: <<month, day, hour>>;
\* q.date.toISOString().split('T')[0] keeps the calendar date
IsoDate(dt) == <<dt[1], dt[2]>>

(***************************************************************************)
(* Series.  A fetch yields a series (ok, with its points) or null.         *)
(***************************************************************************)
NullSeries == [ok |-> FALSE, pts |-> <<>>]

Series(points) == [ok |-> TRUE, pts |-> points]

Point(date, value) == [date |-> date, value |-> value]

\* Array.prototype.filter
Filter(s, Keep(_)) == SelectSeq(s, Keep)

\* Array.prototype.map
Map(s, F(_)) == [i \in 1..Len(s) |-> F(s[i])]

\* Array.prototype.find: index of the first element satisfying Test,
\* 0 when there is none (find then returns undefined)
Find(s, Test(_)) ==
    LET hits == {i \in 1..Len(s) : Test(s[i])}
    IN  IF hits = {} THEN 0 ELSE CHOOSE i \in hits : \A j \in hits : i <= j

(***************************************************************************)
(* Configuration of the route handler.                                     *)
(***************************************************************************)
\* YAHOO_SYMBOLS: the twelve market instruments, in declaration order
YAHOO_SYMBOLS == <<"SPX", "AAPL", "MSFT", "GOOG", "AMZN", "NVDA", "META", "TSLA",
                   "BTC", "GOLD", "SILVER", "URA">>

\* FRED_SERIES: the two macro series
FRED_SERIES == <<"PCE", "CASE_SHILLER">>

\* the fourteen fetches, in the order the handler issues them
FetchOrder == YAHOO_SYMBOLS \o FRED_SERIES

\* the names the joined results are bound to, in order
\* (route.js: the destructuring pattern; part_002: Object.keys(fetchMap))
BindOrder == <<"SPX", "AAPL", "MSFT", "GOOG", "AMZN", "NVDA", "META", "TSLA",
               "BTC", "GOLD", "SILVER", "URA", "PCE", "CASE_SHILLER">>

FetchKeys == {FetchOrder[i] : i \in 1..Len(FetchOrder)}

\* mag7Stocks: the seven components, in insertion order
Mag7Names == <<"AAPL", "MSFT", "GOOG", "AMZN", "NVDA", "META", "TSLA">>

Mag7Set == {Mag7Names[i] : i \in 1..Len(Mag7Names)}

\* the keys of the datasets object handed to mergeData, in insertion order
DatasetKeys == <<"SPX", "MAG7", "BTC", "GOLD", "SILVER", "URANIUM", "PCE", "CASE_SHILLER">>

DatasetSet == {DatasetKeys[i] : i \in 1..Len(DatasetKeys)}

\* the composite is computed when at least this many components are available
Quorum == 5

\* generateFallbackData produces this many monthly rows
FallbackRows == 12

Variants == {"route", "part002"}

(***************************************************************************)
(* Provider responses and the two fetchers.                                *)
(* A provider call either throws (network error, timeout, library error),  *)
(* answers with a non-2xx status, answers with a payload lacking the list  *)
(* of quotes/observations, or answers with that list.                      *)
(***************************************************************************)
Throws == [kind |-> "throws", body |-> <<>>]
BadStatus == [kind |-> "badstatus", body |-> <<>>]
Malformed == [kind |-> "malformed", body |-> <<>>]
Ok(body) == [kind |-> "ok", body |-> body]

\* the missing-value sentinel '.' of a FRED observation
DOT == <<-3, 0>>

\* parseFloat of an observation's value string
ParseFloat(s) == IF IsFinite(s) THEN s ELSE NaN

Fulfilled(v) == [status |-> "fulfilled", value |-> v]
Rejected == [status |-> "rejected", value |-> NullSeries]

\* fetchFredSeries: the promise it returns, settled
fetchFredSeries(v, hasKey, resp) ==
    IF v = "part002" /\ ~hasKey THEN Fulfilled(NullSeries)
    ELSE IF resp.kind # "ok" THEN Fulfilled(NullSeries)
    ELSE Fulfilled(Series(
            LET kept == Filter(resp.body, LAMBDA obs : obs.value # DOT)
            IN  Map(kept, LAMBDA obs : Point(obs.date, ParseFloat(obs.value)))))

\* fetchYahooData: the promise it returns, settled
fetchYahooData(resp) ==
    IF resp.kind # "ok" THEN Fulfilled(NullSeries)
    ELSE Fulfilled(Series(
            LET kept == Filter(resp.body, LAMBDA q : q.close # NULL)
            IN  Map(kept, LAMBDA q : Point(IsoDate(q.date), JsOr(q.adjclose, q.close)))))

\* the promise of the fetch issued for key k
FetchOf(k, v, hasKey, e) ==
    IF k \in {"PCE", "CASE_SHILLER"} THEN fetchFredSeries(v, hasKey, e[k])
    ELSE fetchYahooData(e[k])

IndexIn(seq, x) == CHOOSE i \in 1..Len(seq) : seq[i] = x

\* the settled promises, in the order the fetches were issued
Settled(v, hasKey, e) == [i \in 1..Len(FetchOrder) |-> FetchOf(FetchOrder[i], v, hasKey, e)]

\* Promise.all rejects as soon as one promise rejects
AllRejects(results) == \E i \in 1..Len(results) : results[i].status = "rejected"

\* a join that fails as a whole: one failed fetch leaves every key null
Joined_FailFast(v, results) ==
    [k \in FetchKeys |->
        LET r == results[IndexIn(BindOrder, k)]
        IN  IF \A j \in 1..Len(results) :
                   results[j].status = "fulfilled" /\ results[j].value # NullSeries
            THEN r.value ELSE NullSeries]

\* the per-key working data after the join: route.js destructures the array
\* Promise.all resolves to; part_002 walks Promise.allSettled's results by index
Joined(v, results) ==
    [k \in FetchKeys |->
        LET r == results[IndexIn(BindOrder, k)]
        IN  IF r.status = "fulfilled" THEN r.value ELSE NullSeries]

(***************************************************************************)
(* calculateMag7(stocks, dates).  names lists the entries of stocks in     *)
(* insertion order.                                                        *)
(***************************************************************************)
NoBase == [set |-> FALSE, vals |-> <<>>]

\* the inner loop over Object.entries(stocks) for one date: every entry has a
\* point on exactly that date (part_002 also gives up on a null entry)
AllPresent(stocks, names, date) ==
    \A i \in 1..Len(names) :
        /\ stocks[names[i]].ok
        /\ Find(stocks[names[i]].pts, LAMBDA d : d.date = date) # 0

\* values[name] = point.value
ValuesOn(stocks, names, date) ==
    [i \in 1..Len(names) |->
        LET pts == stocks[names[i]].pts
        IN  pts[Find(pts, LAMBDA d : d.date = date)].value]

\* totalReturn += value / baseValues[name], over the entries of values
RECURSIVE TotalReturn(_, _, _)
TotalReturn(values, base, i) ==
    IF i > Len(values) THEN Num(0)
    ELSE JsAdd(JsDiv(values[i], base[i]), TotalReturn(values, base, i + 1))

\* the point pushed for a complete date
Mag7Point(date, values, base) ==
    LET avgReturn == JsDiv(TotalReturn(values, base, 1), Num(Len(values)))
    IN  Point(date, JsMul(avgReturn, Num(100)))

\* a loop that takes each complete date as its own base
RECURSIVE Mag7Loop_Rebased(_, _, _, _, _)
Mag7Loop_Rebased(stocks, names, dates, i, baseValues) ==
    IF i > Len(dates) THEN <<>>
    ELSE IF AllPresent(stocks, names, dates[i])
         THEN LET values == ValuesOn(stocks, names, dates[i])
              IN  <<Mag7Point(dates[i], values, values)>>
                      \o Mag7Loop_Rebased(stocks, names, dates, i + 1, baseValues)
         ELSE Mag7Loop_Rebased(stocks, names, dates, i + 1, baseValues)

\* for (const date of dates), from the i-th date on, baseValues being the
\* base captured so far
RECURSIVE Mag7Loop(_, _, _, _, _)
Mag7Loop(stocks, names, dates, i, baseValues) ==
    IF i > Len(dates) THEN <<>>
    ELSE IF AllPresent(stocks, names, dates[i])
         THEN LET values == ValuesOn(stocks, names, dates[i])
                  base == IF ~baseValues.set THEN [set |-> TRUE, vals |-> values]
                          ELSE baseValues
              IN  <<Mag7Point(dates[i], values, base.vals)>>
                      \o Mag7Loop(stocks, names, dates, i + 1, base)
         ELSE Mag7Loop(stocks, names, dates, i + 1, baseValues)

calculateMag7(stocks, names, dates) == Series(Mag7Loop(stocks, names, dates, 1, NoBase))

(***************************************************************************)
(* mergeData(datasets, allDates).                                          *)
(***************************************************************************)
\* row[key] = point?.value || null, or null for a null dataset
MergeField(data, date) ==
    IF data.ok
    THEN LET i == Find(data.pts, LAMBDA d : YearMonth(d.date) = YearMonth(date))
         IN  IF i = 0 THEN NULL ELSE JsOr(data.pts[i].value, NULL)
    ELSE NULL

\* d.date.substring(0, 7) raises a TypeError on a point without a date string:
\* find reaches such a point unless an earlier point matches the month
FindThrows(pts, date) ==
    \E i \in 1..Len(pts) :
        /\ pts[i].date = UNDEFINED
        /\ \A j \in 1..(i - 1) : YearMonth(pts[j].date) # YearMonth(date)

\* mergeData raises instead of returning
MergeThrows(datasets, dates) ==
    \E i \in 1..Len(dates) : \E f \in DatasetSet :
        datasets[f].ok /\ FindThrows(datasets[f].pts, dates[i])

MergeRow(datasets, date) ==
    [f \in DatasetSet \cup {"date"} |->
        IF f = "date" THEN date ELSE MergeField(datasets[f], date)]

\* the empty string, the only falsy date string
EmptyDate == <<0, 0>>

\* the condition under which a row is pushed:
\* route.js `if (row.SPX)`, part_002 `if (date)`
RowKept(v, row) ==
    IF v = "route" THEN Truthy(row["SPX"]) ELSE row["date"] # EmptyDate

\* a merge that gives up when a dataset is missing
mergeData_AbortOnNull(v, datasets, dates) ==
    IF \E f \in DatasetSet : ~datasets[f].ok THEN <<>>
    ELSE Filter([i \in 1..Len(dates) |-> MergeRow(datasets, dates[i])],
                LAMBDA row : RowKept(v, row))

mergeData(v, datasets, dates) ==
    Filter([i \in 1..Len(dates) |-> MergeRow(datasets, dates[i])],
           LAMBDA row : RowKept(v, row))

(***************************************************************************)
(* generateFallbackData (part_002).                                        *)
(***************************************************************************)
FallbackRow(i) ==
    [f \in DatasetSet \cup {"date"} |->
        CASE f = "date" -> <<108 + i + 1, 1>>
          [] f = "SPX" -> Num(4000 + i * 50)
          [] f = "MAG7" -> Num(100 + i * 2)
          [] f = "BTC" -> Num(30000 + i * 1000)
          [] f = "GOLD" -> Num(2000 + i * 10)
          [] f = "SILVER" -> Rat(44 + i, 2)
          [] f = "URANIUM" -> Rat(40 + i, 2)
          [] f = "PCE" -> Rat(600 + i, 5)
          [] f = "CASE_SHILLER" -> Num(300 + i)]

generateFallbackData == [j \in 1..FallbackRows |-> FallbackRow(j - 1)]

(***************************************************************************)
(* The GET handler.                                                        *)
(***************************************************************************)
NoResponse ==
    [success |-> FALSE, isFallback |-> FALSE, data |-> <<>>, sources |-> <<>>,
     fields |-> {}]

\* spxData?.map(d => d.date) || []   (part_002 maps rawData.SPX, non-null there)
AllDatesOf(raw) == Map(raw["SPX"].pts, LAMBDA d : d.date)

\* the number of components that are not null
ValidCount(raw) == Cardinality({n \in Mag7Set : raw[n].ok})

\* route.js filters the null components out (validMag7Stocks);
\* part_002 hands calculateMag7 the whole mag7Stocks object
Mag7Input(v, raw) ==
    IF v = "route" THEN Filter(Mag7Names, LAMBDA n : raw[n].ok) ELSE Mag7Names

\* a quorum of more than five components
Mag7Of_StrictQuorum(v, raw, dates) ==
    IF ValidCount(raw) > Quorum
    THEN calculateMag7(raw, Mag7Input(v, raw), dates)
    ELSE NullSeries

\* the mag7Data of the handler
Mag7Of(v, raw, dates) ==
    IF ValidCount(raw) >= Quorum
    THEN calculateMag7(raw, Mag7Input(v, raw), dates)
    ELSE NullSeries

\* the datasets / finalDatasets object
Datasets(raw, mag7) ==
    [f \in DatasetSet |->
        CASE f = "MAG7" -> mag7
          [] f = "URANIUM" -> raw["URA"]
          [] OTHER -> raw[f]]

SourceLabel(f) ==
    CASE f = "MAG7" -> "Calculated from Yahoo Finance"
      [] f = "URANIUM" -> "Yahoo Finance (URA ETF)"
      [] f \in {"PCE", "CASE_SHILLER"} -> "FRED"
      [] OTHER -> "Yahoo Finance"

SourcesOf(v, datasets) ==
    IF v = "route"
    THEN [f \in DatasetSet |-> IF datasets[f].ok THEN SourceLabel(f) ELSE "unavailable"]
    ELSE [f \in {"SPX", "PCE"} |->
            IF datasets[f].ok THEN (IF f = "SPX" THEN "Yahoo" ELSE "FRED") ELSE "Failed"]

SuccessResponse(v, datasets, merged) ==
    [success |-> TRUE, isFallback |-> FALSE, data |-> merged,
     sources |-> SourcesOf(v, datasets),
     fields |-> {"success", "data", "sources", "lastUpdated"}]

FallbackResponse ==
    [success |-> TRUE, isFallback |-> TRUE, data |-> generateFallbackData,
     sources |-> [f \in {"note"} |-> "Live data unavailable"],
     fields |-> {"success", "isFallback", "data", "sources"}]

ErrorResponse ==
    [success |-> FALSE, isFallback |-> FALSE, data |-> <<>>, sources |-> <<>>,
     fields |-> {"success", "error"}]

\* a test that takes an empty reference series for a missing one
TakesFallback_OnEmpty(v, raw) ==
    v = "part002" /\ (~raw["SPX"].ok \/ raw["SPX"].pts = <<>>)

\* part_002 `if (!rawData.SPX)`: only null is falsy, an empty array is not
TakesFallback(v, raw) == v = "part002" /\ ~raw["SPX"].ok

PageIdle ==
    /\ pageRaw = <<>>
    /\ denominator = "GOLD"
    /\ timeRange = "5Y"
    /\ indexed = TRUE
    /\ chart = <<>>
    /\ leftBase = <<>>

pageVars == <<pageRaw, denominator, timeRange, indexed, chart, leftBase>>

worldVars == <<variant, fredKey, env>>

joinVars == <<inFlight, slots>>

\* await Promise.all([...]) / await Promise.allSettled(...): every fetch has
\* settled; route.js lands in its catch block when the join rejects
AwaitFetches ==
    /\ pc = "start"
    /\ LET results == Settled(variant, fredKey, env)
       IN  IF variant = "route" /\ AllRejects(results)
           THEN /\ pc' = "done"
                /\ response' = ErrorResponse
                /\ UNCHANGED rawData
           ELSE /\ pc' = "joined"
                /\ rawData' = Joined(variant, results)
                /\ UNCHANGED response
    /\ UNCHANGED <<allDates, mag7Data, worldVars, joinVars, pageVars>>

\* part_002: the reference series is missing, answer with the synthetic rows
RespondFallback ==
    /\ pc = "joined"
    /\ TakesFallback(variant, rawData)
    /\ pc' = "done"
    /\ response' = FallbackResponse
    /\ UNCHANGED <<rawData, allDates, mag7Data, worldVars, joinVars, pageVars>>

\* the synchronous rest of the handler: dates, composite, merge, response.
\* An exception raised on the way is caught by route.js (try/catch around the
\* whole handler); part_002 has no handler for it, the exception leaves GET
\* and no body is returned
Respond ==
    /\ pc = "joined"
    /\ ~TakesFallback(variant, rawData)
    /\ LET dates == AllDatesOf(rawData)
           mag7 == Mag7Of(variant, rawData, dates)
           datasets == Datasets(rawData, mag7)
       IN  /\ allDates' = dates
           /\ mag7Data' = mag7
           /\ IF ~MergeThrows(datasets, dates)
              THEN /\ response' = SuccessResponse(variant, datasets,
                                                 mergeData(variant, datasets, dates))
                   /\ pc' = "done"
              ELSE IF variant = "route"
              THEN /\ response' = ErrorResponse
                   /\ pc' = "done"
              ELSE /\ UNCHANGED response
                   /\ pc' = "crashed"
    /\ UNCHANGED <<rawData, worldVars, joinVars, pageVars>>

NextGet == AwaitFetches \/ RespondFallback \/ Respond

(***************************************************************************)
(* The fan-out and the join, fetch by fetch.  The fourteen fetches are     *)
(* issued together and settle in any order; Promise.all and                *)
(* Promise.allSettled store each outcome in the slot of the promise's      *)
(* position in the array they were given.                                  *)
(***************************************************************************)
Pending == [status |-> "pending", value |-> NullSeries]

\* a slot per arrival: the next free position of the array
SlotOf_Arrival(k, res) ==
    1 + Cardinality({i \in 1..Len(res) : res[i].status # "pending"})

\* the slot of the fetch for k: its position in the array literal handed to
\* Promise.all (part_002: in Object.values(fetchMap))
SlotOf(k, res) == IndexIn(FetchOrder, k)

\* the fourteen fetches are issued, none has settled
FanOut ==
    /\ pc = "start"
    /\ pc' = "waiting"
    /\ inFlight' = FetchKeys
    /\ slots' = [i \in 1..Len(FetchOrder) |-> Pending]
    /\ UNCHANGED <<rawData, allDates, mag7Data, response, worldVars, pageVars>>

\* the fetch for k settles, before or after any of its siblings
Settle(k) ==
    /\ pc = "waiting"
    /\ k \in inFlight
    /\ inFlight' = inFlight \ {k}
    /\ slots' = [slots EXCEPT ![SlotOf(k, slots)] = FetchOf(k, variant, fredKey, env)]
    /\ UNCHANGED <<pc, rawData, allDates, mag7Data, response, worldVars, pageVars>>

\* every fetch has settled: the await resumes and the results are bound
JoinSettled ==
    /\ pc = "waiting"
    /\ inFlight = {}
    /\ IF variant = "route" /\ AllRejects(slots)
       THEN /\ pc' = "done"
            /\ response' = ErrorResponse
            /\ UNCHANGED rawData
       ELSE /\ pc' = "joined"
            /\ rawData' = Joined(variant, slots)
            /\ UNCHANGED response
    /\ UNCHANGED <<allDates, mag7Data, worldVars, joinVars, pageVars>>

NextOrder == FanOut \/ (\E k \in FetchKeys : Settle(k)) \/ JoinSettled \/ RespondFallback \/ Respond

(***************************************************************************)
(* The worlds a request runs in: what the providers answer.                *)
(***************************************************************************)
Months == 1..MaxDates

Prices == 0..MaxVal

\* the price key k has in month m unless the world says otherwise
BaseVal(k, m) == IndexIn(FetchOrder, k) + m

BasePoints(k) == [m \in Months |-> Point(<<m, 1>>, Num(BaseVal(k, m)))]

\* a series given by a price per month, -1 standing for "no point that month"
PointsOf(f) ==
    LET all == [m \in Months |-> Point(<<m, 1>>, Num(f[m]))]
    IN  SelectSeq(all, LAMBDA p : p.value[1] >= 0)

Palette == {PointsOf(f) : f \in [Months -> (Prices \cup {-1})]}

\* the chart payload of the market provider for these points: the adjusted
\* close is reported in odd months only, and the running month has no close yet
YahooBody(points) ==
    [i \in 1..Len(points) |->
        LET p == points[i]
        IN  IF p.date[1] % 2 = 1 /\ p.value[1] > 0
            THEN [date |-> <<p.date[1], p.date[2], 0>>,
                  close |-> JsAdd(p.value, Num(1)), adjclose |-> p.value]
            ELSE [date |-> <<p.date[1], p.date[2], 0>>,
                  close |-> p.value, adjclose |-> UNDEFINED]]
    \o <<[date |-> <<MaxDates + 1, 1, 0>>, close |-> NULL, adjclose |-> NULL]>>

\* the observations payload of the macro provider for these points: the latest
\* month is reported with the missing-value sentinel
FredBody(points) ==
    [i \in 1..Len(points) |-> [date |-> points[i].date, value |-> points[i].value]]
    \o << [date |-> <<MaxDates + 1, 1>>, value |-> DOT] >>

IsFred(k) == k \in {"PCE", "CASE_SHILLER"}

OkOf(k, points) == IF IsFred(k) THEN Ok(FredBody(points)) ELSE Ok(YahooBody(points))

\* the ways a provider call can fail
FailKinds(k) == IF IsFred(k) THEN {Throws, BadStatus, Malformed} ELSE {Throws, Malformed}

\* a failure of the fetch for k: which kind is fixed per key, so that every
\* kind occurs in every world with enough failures
FailOf(k) ==
    IF IsFred(k) THEN (IF k = "PCE" THEN BadStatus ELSE Malformed)
    ELSE IF IndexIn(FetchOrder, k) % 2 = 0 THEN Throws ELSE Malformed

GetIdle ==
    /\ pc = "start"
    /\ rawData = <<>>
    /\ allDates = <<>>
    /\ mag7Data = NullSeries
    /\ response = NoResponse
    /\ inFlight = {}
    /\ slots = <<>>

\* fan-out worlds: any subset of the fourteen fetches fails; the credential
\* of the macro provider is missing only in worlds where no market fetch fails
InitFan ==
    /\ variant \in Variants
    /\ \E F \in SUBSET FetchKeys :
          /\ fredKey \in (IF F \subseteq {"PCE", "CASE_SHILLER"} THEN BOOLEAN ELSE {TRUE})
          /\ env = [k \in FetchKeys |-> IF k \in F THEN FailOf(k) ELSE OkOf(k, BasePoints(k))]
    /\ GetIdle
    /\ PageIdle

SpecFan == InitFan /\ [][NextGet]_vars

\* what a fetch is meant to yield in a world: a series of the palette, or null
Outcomes == {Series(p) : p \in Palette} \cup {NullSeries}

\* composite worlds: the reference series and the other instruments answer as
\* usual; at most one component fails, and the first j components report the
\* series alt instead of their usual one
InitMag ==
    /\ variant \in Variants
    /\ fredKey = TRUE
    /\ \E alt \in Palette, j \in 0..Len(Mag7Names), N \in {{}} \cup {{c} : c \in Mag7Set} :
          env = [k \in FetchKeys |->
                    IF k \in N THEN FailOf(k)
                    ELSE IF k \in {Mag7Names[i] : i \in 1..j} THEN OkOf(k, alt)
                    ELSE OkOf(k, BasePoints(k))]
    /\ GetIdle
    /\ PageIdle

\* a history with two points in its first month: the month's opening quote
\* and a mid-month one
Doubled == <<Point(<<1, 1>>, Num(1)), Point(<<1, 15>>, Num(2))>>

MergeOutcomes == Outcomes \cup {Series(Doubled)}

\* merge worlds: the reference series is any series or fails, the components
\* answer as usual, and the other instruments all report the series sec or fail
InitMerge ==
    /\ variant \in Variants
    /\ fredKey = TRUE
    /\ \E spx \in MergeOutcomes, sec \in MergeOutcomes :
          env = [k \in FetchKeys |->
                    IF k = "SPX" THEN (IF spx.ok THEN OkOf(k, spx.pts) ELSE FailOf(k))
                    ELSE IF k \in Mag7Set THEN OkOf(k, BasePoints(k))
                    ELSE IF sec.ok THEN OkOf(k, sec.pts) ELSE FailOf(k)]
    /\ GetIdle
    /\ PageIdle

InitData == InitMag \/ InitMerge

SpecData == InitData /\ [][NextGet]_vars

\* an observations payload in which the observation after the j-th one
\* carries no date
DatelessBody(points, j) ==
    [i \in 1..j |-> [date |-> points[i].date, value |-> points[i].value]]
    \o << [date |-> UNDEFINED, value |-> Num(1)] >>
    \o [i \in 1..(Len(points) - j) |->
           [date |-> points[j + i].date, value |-> points[j + i].value]]

\* faulty worlds: the reference series is any series or fails, the PCE payload
\* holds a dateless observation, everything else answers as usual
InitFault ==
    /\ variant \in Variants
    /\ fredKey = TRUE
    /\ \E spx \in Outcomes, pce \in Palette : \E j \in 0..Len(pce) :
          env = [k \in FetchKeys |->
                    IF k = "SPX" THEN (IF spx.ok THEN OkOf(k, spx.pts) ELSE FailOf(k))
                    ELSE IF k = "PCE" THEN Ok(DatelessBody(pce, j))
                    ELSE OkOf(k, BasePoints(k))]
    /\ GetIdle
    /\ PageIdle

SpecFault == InitFault /\ [][NextGet]_vars

\* interleaving worlds: every provider answers, or the reference fetch fails,
\* or a component and a macro fetch fail
FailSets == {{}, {"SPX"}, {"AAPL", "PCE"}}

InitOrder ==
    /\ variant \in Variants
    /\ fredKey = TRUE
    /\ \E F \in FailSets :
          env = [k \in FetchKeys |-> IF k \in F THEN FailOf(k) ELSE OkOf(k, BasePoints(k))]
    /\ GetIdle
    /\ PageIdle

SpecOrder == InitOrder /\ [][NextOrder]_vars

(***************************************************************************)
(* The dashboard (page.js): time-range filter and chart transformer.       *)
(***************************************************************************)
\* Object.keys(ASSETS), in insertion order
ASSETS == <<"SPX", "MAG7", "BTC", "GOLD", "SILVER", "URANIUM">>

AssetSet == {ASSETS[i] : i \in 1..Len(ASSETS)}

TIME_RANGES == [r \in {"1Y", "3Y", "5Y", "10Y", "MAX"} |->
                  CASE r = "1Y" -> 12
                    [] r = "3Y" -> 36
                    [] r = "5Y" -> 60
                    [] r = "10Y" -> 120
                    [] r = "MAX" -> 999]

DENOMINATORS == {"GOLD", "HOUSES", "PCE", "USD"}

\* rawData.slice(-months)
SliceLast(rows, months) ==
    IF Len(rows) <= months THEN rows
    ELSE SubSeq(rows, Len(rows) - months + 1, Len(rows))

\* the filteredData memo (rawData null or empty gives no rows)
filteredData(raw, range) ==
    IF TIME_RANGES[range] = 999 THEN raw ELSE SliceLast(raw, TIME_RANGES[range])

\* a transformation that prices in gold whatever the denominator
Transformed_AlwaysGold(value, row, denom, latestPCE) ==
    IF Truthy(row["GOLD"]) THEN JsDiv(value, row["GOLD"]) ELSE value

\* the denominator transformation of one value
Transformed(value, row, denom, latestPCE) ==
    IF denom = "PCE" /\ Truthy(row["PCE"]) /\ Truthy(latestPCE)
    THEN JsMul(value, JsDiv(latestPCE, row["PCE"]))
    ELSE IF denom = "GOLD" /\ Truthy(row["GOLD"])
    THEN JsDiv(value, row["GOLD"])
    ELSE IF denom = "HOUSES" /\ Truthy(row["CASE_SHILLER"])
    THEN JsMul(JsDiv(value, row["CASE_SHILLER"]), Num(100))
    ELSE value

\* a base that is captured again on every row
BaseAfter_Recaptured(base, value, i, isIndexed) ==
    IF isIndexed THEN value ELSE base

\* baseValues[asset] after the row at (0-based) index i has been handled
BaseAfter(base, value, i, isIndexed) ==
    IF isIndexed /\ (i = 0 \/ base = UNDEFINED) THEN value ELSE base

\* the value after the optional indexing step
Indexed(value, base, isIndexed) ==
    IF isIndexed /\ Truthy(base) THEN JsMul(JsDiv(value, base), Num(100)) ELSE value

\* the callback of filteredData.map for the row at index i (0-based), given
\* the baseValues object as the earlier rows left it: the result row and the
\* baseValues it leaves
ChartRow(row, i, baseValues, denom, isIndexed, latestPCE) ==
    LET t == [a \in AssetSet |->
                IF IsNullish(row[a]) THEN NULL
                ELSE Transformed(row[a], row, denom, latestPCE)]
        b == [a \in AssetSet |->
                IF IsNullish(row[a]) THEN baseValues[a]
                ELSE BaseAfter(baseValues[a], t[a], i, isIndexed)]
    IN  [out |-> [f \in AssetSet \cup {"date"} |->
                    IF f = "date" THEN row["date"]
                    ELSE IF IsNullish(row[f]) THEN NULL
                    ELSE Round4(Indexed(t[f], b[f], isIndexed))],
         base |-> b]

RECURSIVE ChartLoop(_, _, _, _, _, _)
ChartLoop(rows, i, baseValues, denom, isIndexed, latestPCE) ==
    IF i >= Len(rows) THEN <<>>
    ELSE LET r == ChartRow(rows[i + 1], i, baseValues, denom, isIndexed, latestPCE)
         IN  <<r.out>> \o ChartLoop(rows, i + 1, r.base, denom, isIndexed, latestPCE)

\* filteredData.map from index i on, keeping the baseValues object too:
\* the result rows, and baseValues as the last row leaves it
RECURSIVE RunLoop(_, _, _, _, _, _)
RunLoop(rows, i, baseValues, denom, isIndexed, latestPCE) ==
    IF i >= Len(rows) THEN [rows |-> <<>>, base |-> baseValues]
    ELSE LET r == ChartRow(rows[i + 1], i, baseValues, denom, isIndexed, latestPCE)
             rest == RunLoop(rows, i + 1, r.base, denom, isIndexed, latestPCE)
         IN  [rows |-> <<r.out>> \o rest.rows, base |-> rest.base]

\* an object holding no base value yet
NoBases == [a \in AssetSet |-> UNDEFINED]

\* a baseValues object that outlives the invocation: the one the previous
\* invocation left, if there was one
NewBaseValues_Kept(left) == IF DOMAIN left = {} THEN NoBases ELSE left

\* `const baseValues = {}`: every invocation starts from an empty object,
\* whatever the previous invocation left in its own
NewBaseValues(left) == NoBases

\* one invocation of the chartData callback, left being the baseValues object
\* the previous invocation left behind: the rows it returns and the
\* baseValues object it leaves
ChartFrom(filtered, denom, isIndexed, left) ==
    IF Len(filtered) = 0 THEN [rows |-> <<>>, base |-> left]
    ELSE RunLoop(filtered, 0, NewBaseValues(left), denom, isIndexed,
                 filtered[Len(filtered)]["PCE"])

\* the chartData memo, computed in a component that has computed none before
ChartOf(filtered, denom, isIndexed) ==
    IF Len(filtered) = 0 THEN <<>>
    ELSE ChartLoop(filtered, 0, NoBases, denom, isIndexed,
                   filtered[Len(filtered)]["PCE"])

\* the chartData memo of the current render: React recomputes it whenever
\* filteredData, denominator or indexed changed
chartData == ChartOf(filteredData(pageRaw, timeRange), denominator, indexed)

(***************************************************************************)
(* The dashboard's state machine: the data arrives, then the user changes  *)
(* the denominator, the time range and the indexing flag; every change     *)
(* re-renders, which recomputes the filteredData and chartData memos.      *)
(***************************************************************************)
\* a merged row as the API serves it: the reference series is never null and
\* prices are positive; the divisor series (gold, PCE, Case-Shiller) are
\* present together (has) or missing together, PCE moving with the reference
RowOf(s, a, has) ==
    [f \in DatasetSet |->
        CASE f \in {"SPX", "SILVER"} -> Num(s)
          [] f \in {"MAG7", "BTC", "URANIUM"} -> a
          [] f = "GOLD" -> IF has THEN Num(2) ELSE NULL
          [] f = "PCE" -> IF has THEN Num(119 + s) ELSE NULL
          [] f = "CASE_SHILLER" -> IF has THEN Num(300) ELSE NULL]

RowPalette == {RowOf(s, a, has) : s \in {1, 3}, a \in {NULL, Rat(1, 3)}, has \in BOOLEAN}

\* the rows with their dates, one month per row
Dated(rows) ==
    [i \in 1..Len(rows) |->
        [f \in DatasetSet \cup {"date"} |-> IF f = "date" THEN <<i, 1>> ELSE rows[i][f]]]

\* a history one month longer than the one-year window, repeating the rows
Cycle(head) ==
    [i \in 1..(TIME_RANGES["1Y"] + 1) |-> head[((i - 1) % Len(head)) + 1]]

Heads == UNION {[1..n -> RowPalette] : n \in 1..MaxRows}

\* three months of the reference series with the PCE index, and an asset
\* whose history starts a month later
ExampleRows ==
    [i \in 1..3 |->
        [f \in DatasetSet |->
            CASE f = "SPX" -> Num(IF i = 1 THEN 100 ELSE IF i = 2 THEN 110 ELSE 121)
              [] f = "PCE" -> Num(119 + i)
              [] f = "BTC" -> IF i = 1 THEN NULL ELSE Num(i)
              [] OTHER -> NULL]]

\* the rows a long history repeats in turn: a low month and a high month
CycleHeads ==
    {<<a, b>> : a \in {r \in RowPalette : r["SPX"] = Num(1)},
                b \in {r \in RowPalette : r["SPX"] = Num(3)}}

PageInputs ==
    {Dated(h) : h \in Heads} \cup {Dated(Cycle(h)) : h \in CycleHeads} \cup {Dated(ExampleRows)}

\* the render a state change triggers: filteredData and chartData are
\* recomputed from the new state
Render(raw, denom, range, isIndexed) ==
    LET run == ChartFrom(filteredData(raw, range), denom, isIndexed, leftBase)
    IN  /\ chart' = run.rows
        /\ leftBase' = run.base

\* useEffect: the fetch of /api/data resolved with success, setRawData(result.data)
Load ==
    /\ pc = "loading"
    /\ pageRaw' \in PageInputs
    /\ pc' = "ready"
    /\ Render(pageRaw', denominator, timeRange, indexed)
    /\ UNCHANGED <<denominator, timeRange, indexed>>
    /\ UNCHANGED <<rawData, allDates, mag7Data, response, worldVars, joinVars>>

\* setDenominator(d)
SetDenominator ==
    /\ pc = "ready"
    /\ denominator' \in DENOMINATORS \ {denominator}
    /\ Render(pageRaw, denominator', timeRange, indexed)
    /\ UNCHANGED <<pc, pageRaw, timeRange, indexed>>
    /\ UNCHANGED <<rawData, allDates, mag7Data, response, worldVars, joinVars>>

\* setTimeRange(r)
SetTimeRange ==
    /\ pc = "ready"
    /\ timeRange' \in (DOMAIN TIME_RANGES) \ {timeRange}
    /\ Render(pageRaw, denominator, timeRange', indexed)
    /\ UNCHANGED <<pc, pageRaw, denominator, indexed>>
    /\ UNCHANGED <<rawData, allDates, mag7Data, response, worldVars, joinVars>>

\* setIndexed(!indexed)
ToggleIndexed ==
    /\ pc = "ready"
    /\ indexed' = ~indexed
    /\ Render(pageRaw, denominator, timeRange, indexed')
    /\ UNCHANGED <<pc, pageRaw, denominator, timeRange>>
    /\ UNCHANGED <<rawData, allDates, mag7Data, response, worldVars, joinVars>>

NextPage == Load \/ SetDenominator \/ SetTimeRange \/ ToggleIndexed

\* the dashboard as mounted: useState's initial values, no request modelled
InitPage ==
    /\ pc = "loading"
    /\ PageIdle
    /\ variant = "route"
    /\ fredKey = TRUE
    /\ env = <<>>
    /\ rawData = <<>>
    /\ allDates = <<>>
    /\ mag7Data = NullSeries
    /\ response = NoResponse
    /\ inFlight = {}
    /\ slots = <<>>

SpecPage == InitPage /\ [][NextPage]_vars

(***************************************************************************)
(* Properties of the route handler.                                        *)
(***************************************************************************)
\* the least element of a non-empty set of positions
FirstOf(S) == CHOOSE i \in S : \A j \in S : i <= j

\* the handler answered from the merge (not from the fallback generator)
Merged == pc = "done" /\ response.success /\ ~response.isFallback

\* the fetch issued for k fails in this world
FetchFails(k) ==
    \/ env[k].kind # "ok"
    \/ IsFred(k) /\ variant = "part002" /\ ~fredKey

\* C2: mergeData never emits a row whose reference-series field SPX is null,
\* in either route-handler variant.
C2_NoRowWithNullReference ==
    Merged => \A i \in 1..Len(response.data) : response.data[i]["SPX"] # NULL

\* C3: whenever the reference-series fetch is unavailable, the response has
\* success = true, isFallback = true and the 12 synthetic rows with every
\* configured field populated, in either route-handler variant.
C3_FallbackWhenReferenceUnavailable ==
    (pc = "done" /\ FetchFails("SPX")) =>
        /\ response.success
        /\ response.isFallback
        /\ Len(response.data) = FallbackRows
        /\ \A i \in 1..Len(response.data) : \A f \in DatasetSet :
              response.data[i][f] # NULL

\* the components whose fetch did not fail
Available == {c \in Mag7Set : ~FetchFails(c)}

\* component c has a point dated exactly d
HasPointOn(c, d) == \E j \in 1..Len(rawData[c].pts) : rawData[c].pts[j].date = d

\* the value of component c on date d (its first point of that date)
ValueOn(c, d) ==
    LET pts == rawData[c].pts
        j == CHOOSE j \in 1..Len(pts) :
                 pts[j].date = d /\ \A h \in 1..(j - 1) : pts[h].date # d
    IN  pts[j].value

\* the sum over the components names[i..] of value on d / value on d0
RECURSIVE RatioSum(_, _, _, _)
RatioSum(names, d, d0, i) ==
    IF i > Len(names) THEN Num(0)
    ELSE JsAdd(JsDiv(ValueOn(names[i], d), ValueOn(names[i], d0)),
               RatioSum(names, d, d0, i + 1))

\* C4: with exactly one component unavailable and the other six holding a
\* point on every canonical date, the composite has one point per canonical
\* date, each valued from those six components (100 times the mean of their
\* value relative to the first date), and every merged row has a non-null MAG7.
C4_CompositeFromSixComponents ==
    (/\ Merged
     /\ Cardinality(Available) = 6
     /\ \A c \in Available : \A i \in 1..Len(allDates) : HasPointOn(c, allDates[i]))
    =>
    LET six == SelectSeq(Mag7Names, LAMBDA n : n \in Available)
    IN  /\ mag7Data.ok
        /\ Len(mag7Data.pts) = Len(allDates)
        /\ \A i \in 1..Len(mag7Data.pts) :
              /\ mag7Data.pts[i].date = allDates[i]
              /\ mag7Data.pts[i].value =
                    JsMul(JsDiv(RatioSum(six, allDates[i], allDates[1], 1), Num(6)), Num(100))
        /\ \A i \in 1..Len(response.data) : response.data[i]["MAG7"] # NULL

\* C5: the composite is null if and only if fewer than 5 of the 7 component
\* fetches are available.
C5_CompositeNullIffBelowQuorum ==
    Merged => (mag7Data = NullSeries <=> Cardinality(Available) < 5)

\* quorum exactly met: five components available, and a composite series
C5_Witness ==
    /\ Merged
    /\ Cardinality(Available) = 5
    /\ mag7Data.ok

\* the components calculateMag7 retains, and the dates complete across them
Retained == {c \in Mag7Set : rawData[c].ok}

Complete(d) == \A c \in Retained : HasPointOn(c, d)

\* C6: a non-empty composite series starts at the first canonical date on
\* which every retained component has a point, with the value exactly 100.
C6_CompositeStartsAt100 ==
    (Merged /\ mag7Data.ok /\ Len(mag7Data.pts) > 0) =>
        \E i \in 1..Len(allDates) :
            /\ mag7Data.pts[1].date = allDates[i]
            /\ Complete(allDates[i])
            /\ \A j \in 1..(i - 1) : ~Complete(allDates[j])
            /\ mag7Data.pts[1].value = Num(100)

\* C10: after the join the working data of a key is null exactly when its
\* fetch failed, and is the series its provider reported otherwise, whatever
\* happened to the other fetches.
C10_FailureIsolation ==
    pc # "start" =>
        \A k \in FetchKeys :
            rawData[k] = IF FetchFails(k) THEN NullSeries ELSE Series(BasePoints(k))

\* a failed fetch next to a successful sibling
C10_Witness ==
    /\ pc = "joined"
    /\ FetchFails("AAPL") /\ FetchFails("PCE") /\ ~FetchFails("MSFT") /\ ~FetchFails("SPX")
    /\ ~rawData["AAPL"].ok /\ rawData["MSFT"].ok

\* the handler ended, by a response or by an exception leaving it
Ended == pc \in {"done", "crashed"}

\* an exception was raised after the join: the merge met a dateless point
Raised ==
    /\ Ended
    /\ ~TakesFallback(variant, rawData)
    /\ MergeThrows(Datasets(rawData, mag7Data), allDates)

\* C12: when an exception is raised in the handler after the fetches have
\* settled, the response is success = false with an error message and no
\* data field, in either route-handler variant.
C12_ExceptionGivesErrorResponse ==
    Raised => /\ ~response.success
              /\ response.fields = {"success", "error"}

\* the datasets object the handler merged
MergedDatasets == Datasets(rawData, mag7Data)

\* rows a and b agree on the date and on every key but f
SameBut(a, b, f) ==
    /\ Len(a) = Len(b)
    /\ \A i \in 1..Len(a) : \A g \in (DatasetSet \cup {"date"}) \ {f} : a[i][g] = b[i][g]

\* what a missing series could have held instead: nothing, or a full history
Alternatives == {<<>>} \cup {BasePoints(FetchOrder[i]) : i \in 1..3}

\* C13: for every series key whose dataset is null (the composite below
\* quorum included) the merge raises no error, the key is null in every
\* emitted row, and the emitted rows and the values of all other keys are what
\* they would be had that series been available, whatever it then held.
C13_NullSeriesLeavesOthersAlone ==
    (Ended /\ ~TakesFallback(variant, rawData)) =>
        /\ Merged
        /\ \A f \in DatasetSet : ~MergedDatasets[f].ok =>
              /\ \A i \in 1..Len(response.data) : response.data[i][f] = NULL
              /\ \A alt \in Alternatives :
                    SameBut(response.data,
                            mergeData(variant, [MergedDatasets EXCEPT ![f] = Series(alt)],
                                      allDates),
                            f)

\* a merge with the composite below quorum and gold missing, next to series
\* that are there
C13_Witness ==
    /\ Merged
    /\ ~MergedDatasets["MAG7"].ok /\ ~MergedDatasets["GOLD"].ok
    /\ MergedDatasets["BTC"].ok
    /\ Len(response.data) = MaxDates
    /\ response.data[1]["GOLD"] = NULL /\ response.data[1]["MAG7"] = NULL
    /\ response.data[1]["BTC"] # NULL

\* C14: no two rows emitted by mergeData have dates of the same year-month,
\* also when the reference series reports two points within one month.
C14_OneRowPerMonth ==
    Merged =>
        \A i, j \in 1..Len(response.data) :
            i # j => YearMonth(response.data[i]["date"]) # YearMonth(response.data[j]["date"])

\* the marker sources carries for a series that was unavailable
Markers == {"unavailable", "Failed"}

\* C15: on every successful non-fallback response, sources maps each of the
\* eight tracked series keys to a provenance label or to the unavailable
\* marker, the marker exactly for the series that were unavailable, and the
\* response carries lastUpdated.
C15_SourcesCoverEverySeries ==
    Merged =>
        /\ DOMAIN response.sources = DatasetSet
        /\ \A f \in DatasetSet \cap DOMAIN response.sources :
              response.sources[f] \in Markers <=> ~MergedDatasets[f].ok
        /\ "lastUpdated" \in response.fields

\* C16: when FRED_API_KEY is absent from the environment, PCE and
\* CASE_SHILLER are null after the join, exactly as for a provider failure,
\* and the request completes with both null in every merged row, in either
\* route-handler variant.
C16_MissingCredentialIsUnavailable ==
    (pc \in {"joined", "done"} /\ ~fredKey) =>
        /\ rawData["PCE"] = NullSeries
        /\ rawData["CASE_SHILLER"] = NullSeries
        /\ pc = "done" =>
              /\ Merged
              /\ \A i \in 1..Len(response.data) :
                    /\ response.data[i]["PCE"] = NULL
                    /\ response.data[i]["CASE_SHILLER"] = NULL

\* the points of a series that fall in the month of date d, by position
InMonth(series, d) ==
    {j \in 1..Len(series.pts) : YearMonth(series.pts[j].date) = YearMonth(d)}

\* C18: for every canonical date d and every available series, the merged
\* row's field is the value of the first point, in source order, of the same
\* year-month as d; the field is null only when the series has no point in
\* that month or is unavailable.
C18_FieldIsFirstPointOfMonth ==
    Merged =>
        \A i \in 1..Len(response.data) : \A f \in DatasetSet :
            LET d == response.data[i]["date"]
                series == MergedDatasets[f]
            IN  IF series.ok /\ InMonth(series, d) # {}
                THEN response.data[i][f] = series.pts[FirstOf(InMonth(series, d))].value
                ELSE response.data[i][f] = NULL

\* the dates of the points of a series, in order
DatesOf(series) == [i \in 1..Len(series.pts) |-> series.pts[i].date]

\* C19: a canonical date appears in the series calculateMag7 returns exactly
\* when every available component has a point dated that very day; the
\* other dates are skipped and the canonical order is kept.
C19_CompositeDatesAreCompleteDates ==
    (Merged /\ mag7Data.ok) =>
        DatesOf(mag7Data) = SelectSeq(allDates, Complete)

\* the available components, in insertion order
RetainedNames == SelectSeq(Mag7Names, LAMBDA n : n \in Retained)

\* the canonical dates complete across the available components, in order
CompleteDates == SelectSeq(allDates, Complete)

\* C20: the composite value of every complete date is 100 times the
\* arithmetic mean, over the available components, of value_i / base_i, base_i
\* being component i's value at the first complete date, the same for every
\* later date; in route.js every complete date has such a value.
C20_CompositeIsMeanOfReturns ==
    (Merged /\ mag7Data.ok) =>
        /\ \A i \in 1..Len(mag7Data.pts) :
              /\ CompleteDates # <<>>
              /\ mag7Data.pts[i].value =
                    JsMul(JsDiv(RatioSum(RetainedNames, mag7Data.pts[i].date,
                                         CompleteDates[1], 1),
                                Num(Len(RetainedNames))),
                          Num(100))
        /\ variant = "route" => DatesOf(mag7Data) = CompleteDates

\* a composite of two dates whose second value has moved off the base
C20_Witness ==
    /\ Merged /\ mag7Data.ok
    /\ Len(mag7Data.pts) = 2
    /\ mag7Data.pts[1].value = Num(100)
    /\ IsFinite(mag7Data.pts[2].value)
    /\ mag7Data.pts[2].value # Num(100)
    /\ Cardinality(Retained) = 6

\* the response the handler gives when the composite is unavailable, the
\* fetched series and the canonical dates being the same
QuorumFailureResponse ==
    LET datasets == Datasets(rawData, NullSeries)
    IN  SuccessResponse(variant, datasets, mergeData(variant, datasets, allDates))

\* the quorum is met and no canonical date is complete
NoOverlap ==
    /\ Merged
    /\ Cardinality(Retained) >= Quorum
    /\ allDates # <<>>
    /\ CompleteDates = <<>>

\* C21: with the quorum met and no complete canonical date, the composite is
\* the empty series, not null, and the handler's response differs from the
\* one it gives when the quorum is not met.
C21_NoOverlapIsNotQuorumFailure ==
    NoOverlap =>
        /\ mag7Data = Series(<<>>)
        /\ response # QuorumFailureResponse

\* the reference fetch succeeded with zero points
EmptyReference == rawData["SPX"] = Series(<<>>)

\* C22: in part_002 the fallback is taken only when the reference series is
\* null: a reference fetch that succeeds with zero points is answered with
\* success = true, an empty data sequence and no isFallback field, and every
\* response with isFallback = true comes from a null reference series and
\* carries the generated rows only.
C22_FallbackOnlyOnNull ==
    (variant = "part002" /\ Ended) =>
        /\ EmptyReference =>
              /\ pc = "done"
              /\ response.success
              /\ response.data = <<>>
              /\ ~response.isFallback
              /\ "isFallback" \notin response.fields
        /\ (pc = "done" /\ response.isFallback) =>
              /\ rawData["SPX"] = NullSeries
              /\ response.data = generateFallbackData

\* part_002 has answered a reference series of zero points while another
\* instrument reported points
C22_Witness ==
    /\ variant = "part002"
    /\ pc = "done"
    /\ EmptyReference
    /\ rawData["BTC"].ok /\ rawData["BTC"].pts # <<>>
    /\ response.success /\ response.data = <<>>

\* C11: in every completion order of the fourteen fetches, a settled fetch's
\* outcome sits in the slot of its own key, and after the join the working
\* data of every key k is the outcome of the fetch issued for k.
C11_ResultsKeyedByFetch ==
    /\ pc = "waiting" =>
          \A k \in FetchKeys \ inFlight :
              slots[IndexIn(BindOrder, k)] = FetchOf(k, variant, fredKey, env)
    /\ (pc \in {"joined", "done"} /\ slots # <<>>) =>
          \A k \in FetchKeys : rawData[k] = FetchOf(k, variant, fredKey, env).value

\* the fetch issued last has settled, a failed one too, while the fetch
\* issued first is still in flight
C11_Witness ==
    /\ pc = "waiting"
    /\ "SPX" \in inFlight /\ "MSFT" \in inFlight
    /\ "CASE_SHILLER" \notin inFlight /\ "AAPL" \notin inFlight
    /\ FetchFails("AAPL")
    /\ slots[14].value = Series(BasePoints("CASE_SHILLER"))
    /\ slots[2].value = NullSeries

(***************************************************************************)
(* Properties of the chart transformer.                                    *)
(***************************************************************************)
\* the input row behind the i-th chart row: the window is the trailing part
\* of the rows the page holds
WindowLen ==
    IF Len(pageRaw) <= TIME_RANGES[timeRange] THEN Len(pageRaw) ELSE TIME_RANGES[timeRange]

WindowRow(i) == pageRaw[Len(pageRaw) - WindowLen + i]

\* the divisor field a denominator refers to
DivisorField(denom) ==
    CASE denom = "GOLD" -> "GOLD"
      [] denom = "HOUSES" -> "CASE_SHILLER"
      [] denom = "PCE" -> "PCE"

\* o is x rounded to 4 decimals, halves up: o * 10000 is an integer and
\* x * 10000 - 1/2 < o * 10000 <= x * 10000 + 1/2
Rounds4(o, x) ==
    /\ IsFinite(o) /\ IsFinite(x)
    /\ 10000 % o[2] = 0
    /\ LET scaled == o[1] * (10000 \div o[2])
       IN  /\ 2 * 10000 * x[1] - x[2] < 2 * scaled * x[2]
           /\ 2 * scaled * x[2] <= 2 * 10000 * x[1] + x[2]

\* C1: under the denominators GOLD, HOUSES and PCE, on every row whose
\* divisor field is null every asset's output value is null.
C1_NullDivisorGivesNull ==
    (pc = "ready" /\ denominator # "USD") =>
        \A i \in 1..WindowLen :
            IsNullish(WindowRow(i)[DivisorField(denominator)]) =>
                \A a \in AssetSet : chartData[i][a] = NULL

\* C8 as stated: with denominator USD and indexing off, the output value of
\* every non-null asset value v equals v.
C8_UsdIdentityExact ==
    (pc = "ready" /\ denominator = "USD" /\ ~indexed) =>
        \A i \in 1..WindowLen : \A a \in AssetSet :
            ~IsNullish(WindowRow(i)[a]) => chartData[i][a] = WindowRow(i)[a]

\* C8 amended: with denominator USD and indexing off, the output value of
\* every non-null asset value v is v rounded to 4 decimals.
C8_UsdIdentityRounded ==
    (pc = "ready" /\ denominator = "USD" /\ ~indexed) =>
        \A i \in 1..WindowLen : \A a \in AssetSet :
            ~IsNullish(WindowRow(i)[a]) => Rounds4(chartData[i][a], WindowRow(i)[a])

\* USD without indexing on a value with more than 4 decimals
C8_Witness ==
    /\ pc = "ready" /\ denominator = "USD" /\ ~indexed
    /\ WindowLen >= 2
    /\ WindowRow(2)["MAG7"] = Rat(1, 3)
    /\ chartData[2]["MAG7"] = Rat(3333, 10000)
    /\ chartData[1]["SPX"] = WindowRow(1)["SPX"]

\* the rows of the window on which asset a is non-null
NonNullRows(a) == {i \in 1..WindowLen : ~IsNullish(WindowRow(i)[a])}

\* the denominator-transformed value of asset a on the i-th row of the window
TransformedAt(i, a) ==
    Transformed(WindowRow(i)[a], WindowRow(i), denominator,
                WindowRow(WindowLen)["PCE"])

\* value / base * 100
Rebased(value, base) == JsMul(JsDiv(value, base), Num(100))

ToNumber(x) == IF x = NULL THEN Num(0) ELSE IF x = UNDEFINED THEN NaN ELSE x

\* C9: with denominator PCE and indexing off, every non-null asset value v
\* of a window row is output as v * (latestPCE / row.PCE), to the 4 decimals
\* of the output, latestPCE being the PCE field of the last row of the
\* filtered window.
C9_PceAdjusted ==
    (pc = "ready" /\ denominator = "PCE" /\ ~indexed) =>
        \A i \in 1..WindowLen : \A a \in AssetSet :
            ~IsNullish(WindowRow(i)[a]) =>
                Rounds4(chartData[i][a],
                        JsMul(WindowRow(i)[a],
                              JsDiv(ToNumber(WindowRow(WindowLen)["PCE"]),
                                    ToNumber(WindowRow(i)["PCE"]))))

\* C17: over any sequence of invocations with varying denominator, window
\* and indexing flag, the rows an invocation returns are those the same
\* inputs give in a component that has computed nothing before (so identical
\* inputs give identical rows and no captured base value carries over), and
\* an invocation leaves the input rows as they were.
C17_TransformerIsPure ==
    /\ [](pc = "ready" => chart = chartData)
    /\ [][pc = "ready" => pageRaw' = pageRaw]_vars

\* an invocation that follows one with another denominator, with base values
\* captured by both
C17_Witness ==
    /\ pc = "ready" /\ indexed /\ denominator = "PCE"
    /\ pageRaw = Dated(ExampleRows)
    /\ leftBase["BTC"] = Rat(244, 121)
    /\ chart[3]["BTC"] = Rat(1487705, 10000)

====
